---------------------------- MODULE Spec2Model ----------------------------
(***************************************************************************)
(* The urgency pipeline of camara-cl-api (src/src/fetch_urgencias.py with  *)
(* the fetcher and the text normalizer of src/src/utils.py) as a state     *)
(* machine: the driver loop of main, the three memoized stage functions,   *)
(* the retry loop of fetch_content and the row expansion.                  *)
(*                                                                         *)
(* Texts are sequences of one-character strings.  An Optional[str] is a    *)
(* record [some, val].  The upstream service is the environment: each      *)
(* request attempt either fails or answers with a document drawn from a    *)
(* small set of sample documents of the endpoint.                          *)
(*                                                                         *)
(* Further specifications over the same state: the pipeline against fixed  *)
(* upstream content (FixedSpec), the normalizer utils.clean_text on its    *)
(* own (NormalizerSpec), and the vote-metadata program of                  *)
(* src/src/fetch_votaciones.py (VotacionesSpec).                           *)
(***************************************************************************)
EXTENDS Integers, Sequences, FiniteSets, TLC

(***************************************************************************)
(* Bounds and program constants.                                           *)
(***************************************************************************)
\* The number of numeric column headers (seed vote ids) of the input file.
MaxSeeds == 2

\* utils.py:19, the default of fetch_content's retries parameter.
retries == 3

(***************************************************************************)
(* Texts.                                                                  *)
(***************************************************************************)
Some(t) == [some |-> TRUE, val |-> t]
None == [some |-> FALSE, val |-> <<>>]

\* The characters str.split() treats as separators.
IsSpace(c) == c \in {" ", "\t", "\n"}

\* str.isdigit(): non-empty and every character a digit.
isdigit(s) ==
    /\ s # <<>>
    /\ \A i \in 1..Len(s) : s[i] \in {"0", "1", "2", "3", "4", "5", "6", "7", "8", "9"}

\* text.split(): the maximal runs of non-separator characters, in order.
\* cur is the run being read, acc the runs already closed.
RECURSIVE SplitFrom(_, _, _)
SplitFrom(s, cur, acc) ==
    IF s = <<>>
    THEN IF cur = <<>> THEN acc ELSE Append(acc, cur)
    ELSE IF IsSpace(Head(s))
         THEN SplitFrom(Tail(s), <<>>, IF cur = <<>> THEN acc ELSE Append(acc, cur))
         ELSE SplitFrom(Tail(s), Append(cur, Head(s)), acc)

split(s) == SplitFrom(s, <<>>, <<>>)

\* sep.join(words)
RECURSIVE join(_, _)
join(sep, words) ==
    IF words = <<>> THEN <<>>
    ELSE IF Len(words) = 1 THEN words[1]
    ELSE words[1] \o sep \o join(sep, Tail(words))

\* A normalizer that returns the text as it is.
clean_text_unchanged(text) ==
    IF text.some THEN text.val ELSE <<>>

\* utils.clean_text: None and "" give "", otherwise " ".join(text.split()).
clean_text(text) ==
    IF text.some /\ text.val # <<>> THEN join(<<" ">>, split(text.val)) ELSE <<>>

(***************************************************************************)
(* Documents the upstream endpoints answer with.  A document is what the   *)
(* parsers of utils.py make of the bytes: whether the body is empty,       *)
(* whether a tree can be recovered, and the tree's elements, anchors and   *)
(* tables in document order.                                               *)
(***************************************************************************)
Doc(empty, parses, elems, links, tables) ==
    [empty |-> empty, parses |-> parses, elems |-> elems, links |-> links,
     tables |-> tables]

EmptyBody == Doc(TRUE, FALSE, <<>>, <<>>, <<>>)
\* Zero bytes of HTML: BeautifulSoup makes an empty soup of them.
EmptyPage == Doc(TRUE, TRUE, <<>>, <<>>, <<>>)
Unparseable == Doc(FALSE, FALSE, <<>>, <<>>, <<>>)

Elem(tag, text) == [tag |-> tag, text |-> text]
XmlDoc(elems) == Doc(FALSE, TRUE, elems, <<>>, <<>>)

\* Bodies of retornarVotacionDetalle.aspx.
VoteDocs ==
    { EmptyBody,
      Unparseable,
      XmlDoc(<<Elem("Resultado", Some(<<"s", "i">>))>>),
      XmlDoc(<<Elem("Boletin", None)>>),
      XmlDoc(<<Elem("Boletin", Some(<<" ", "\n">>))>>),
      XmlDoc(<<Elem("Resultado", Some(<<"n", "o">>)),
               Elem("Boletin", Some(<<" ", "3", "\n">>))>>),
      XmlDoc(<<Elem("Boletin", Some(<<"2", "_", "3">>)),
               Elem("Boletin", Some(<<"3">>))>>) }

\* An anchor: whether its href contains 'urgencias.aspx', and the
\* key=value pairs of the href's query string, in order.
Link(has_urgencias, query) == [has_urgencias |-> has_urgencias, query |-> query]
Param(key, val) == [key |-> key, val |-> val]
HtmlLinks(links) == Doc(FALSE, TRUE, <<>>, links, <<>>)

\* Bodies of tramitacion.aspx.
TramitacionDocs ==
    { EmptyPage,
      Unparseable,
      HtmlLinks(<<Link(FALSE, <<Param("prmID", <<"8">>)>>)>>),
      HtmlLinks(<<Link(TRUE, <<Param("prmID", <<>>), Param("prmid", <<"8">>)>>),
                  Link(TRUE, <<Param("prmID", <<"1">>)>>)>>),
      HtmlLinks(<<Link(FALSE, <<>>),
                  Link(TRUE, <<Param("prmID", <<"1">>), Param("prmBOLETIN", <<"3">>)>>)>>),
      HtmlLinks(<<Link(TRUE, <<Param("prmBOLETIN", <<"3">>), Param("prmID", <<"1", "_", "2">>),
                               Param("prmID", <<"1">>)>>)>>) }

\* A table: whether its text contains each of the two marker phrases, and
\* its rows (each the texts of its td cells) in document order.
Table(fecha_inicio, tipo_urgencia, rows) ==
    [fecha_inicio |-> fecha_inicio, tipo_urgencia |-> tipo_urgencia, rows |-> rows]
HtmlTables(tables) == Doc(FALSE, TRUE, <<>>, <<>>, tables)

HeaderRow == <<>>
RowA == <<<<"a">>, <<" ", "b">>, <<"c", "\n", " ", "d">>, <<>>, <<"e">>, <<"f">>>>
RowB == <<<<"g">>, <<>>, <<"h">>, <<"i">>, <<"j">>>>
ShortRow == <<<<"x">>, <<"y">>>>

\* Bodies of urgencias.aspx.
UrgenciasDocs ==
    { EmptyPage,
      Unparseable,
      HtmlTables(<<Table(FALSE, FALSE, <<HeaderRow, RowA>>)>>),
      HtmlTables(<<Table(FALSE, TRUE, <<RowA, ShortRow>>)>>),
      HtmlTables(<<Table(FALSE, FALSE, <<HeaderRow, RowB>>),
                   Table(TRUE, FALSE, <<HeaderRow, RowA, ShortRow, RowB>>),
                   Table(TRUE, TRUE, <<HeaderRow, RowB>>)>>),
      HtmlTables(<<Table(FALSE, TRUE, <<HeaderRow, RowB>>)>>) }

(***************************************************************************)
(* URLs and observable events.                                             *)
(***************************************************************************)
Url(endpoint, prmID, prmBoletin) ==
    [endpoint |-> endpoint, prmID |-> prmID, prmBoletin |-> prmBoletin]
NoUrl == Url("", <<>>, <<>>)

DetalleUrl(vid) == Url("retornarVotacionDetalle", vid, <<>>)
TramitacionUrl(bol) == Url("tramitacion", <<>>, bol)
UrgenciasUrl(pid, bol) == Url("urgencias", pid, bol)

\* What the endpoint of a URL can answer with.
Responses(url) ==
    IF url.endpoint = "retornarVotacionDetalle" THEN VoteDocs
    ELSE IF url.endpoint = "tramitacion" THEN TramitacionDocs
    ELSE UrgenciasDocs

\* An observable event: a log record (kind info, warning or error, written
\* by who), a fetch_content call, one requests.get, one time.sleep (n in
\* units of sleep_time), or one memo table lookup (who names the table).
Ev(kind, who, url, n) == [kind |-> kind, who |-> who, url |-> url, n |-> n]

(***************************************************************************)
(* The memo tables: functions from the keys stored so far.                 *)
(***************************************************************************)
EmptyDict == [k \in {} |-> <<>>]
\* A slip: `table = {key: value}` for `table[key] = value`.
DictPut_afresh(d, key, value) == [k \in {key} |-> value]

DictPut(d, key, value) ==
    [k \in DOMAIN d \cup {key} |-> IF k = key THEN value ELSE d[k]]

\* A slip: the membership test never succeeds, every lookup is a miss.
in_cache_never(d, key) == FALSE

\* `key in table` (fetch_urgencias.py lines 22, 50 and 86).
in_cache(d, key) == key \in DOMAIN d

(***************************************************************************)
(* fetch_content's pieces.                                                 *)
(***************************************************************************)
\* What fetch_content returns: None, or response.content.
NoContent == [isNone |-> TRUE, doc |-> EmptyBody]
Bytes(doc) == [isNone |-> FALSE, doc |-> doc]

\* A slip: `content is None`, zero bytes pass as content.
not_content_none_only(c) == c.isNone

\* Python's `not content`: None or zero bytes.
not_content(c) == c.isNone \/ c.doc.empty

\* A slip: an off-by-one in the loop bound, one attempt too many.
in_range_inclusive(att, n) == att <= n

\* `for attempt in range(retries)`: whether the loop runs for this attempt.
in_range(att, n) == att < n

(***************************************************************************)
(* fetch_boletin_for_vote's pieces.                                        *)
(***************************************************************************)
\* root.find(".//{*}Boletin"), then root.find("Boletin"): the first element
\* of that tag, None when there is none.
RECURSIVE find(_, _)
find(elems, tag) ==
    IF elems = <<>> THEN None
    ELSE IF Head(elems).tag = tag THEN Some(Head(elems))
    ELSE find(Tail(elems), tag)

\* Lines 27-39: the bulletin read from the fetched record, "" when there is
\* no content, no tree, or no Boletin element.
parse_boletin(c) ==
    IF not_content(c) THEN <<>>
    ELSE IF ~c.doc.parses THEN <<>>
    ELSE LET found == find(c.doc.elems, "Boletin")
         IN  IF found.some THEN clean_text(found.val.text) ELSE <<>>

\* A slip: the bulletin is stored whether or not it is empty.
store_boletin_always(cache, vote_id, bol) == DictPut(cache, vote_id, bol)

\* Lines 40-41: only a non-empty bulletin is stored.
store_boletin(cache, vote_id, bol) ==
    IF bol # <<>> THEN DictPut(cache, vote_id, bol) ELSE cache

(***************************************************************************)
(* fetch_proyecto_id_from_tramitacion's pieces.                            *)
(***************************************************************************)
\* soup.find('a', href=lambda x: x and 'urgencias.aspx' in x)
RECURSIVE find_link(_)
find_link(links) ==
    IF links = <<>> THEN None
    ELSE IF Head(links).has_urgencias THEN Some(Head(links))
    ELSE find_link(Tail(links))

\* urllib.parse.parse_qs(query).get(key, [''])[0]: the first non-blank value
\* of the key (blank values are dropped), '' when there is none.
RECURSIVE qs_get(_, _)
qs_get(query, key) ==
    IF query = <<>> THEN <<>>
    ELSE IF Head(query).key = key /\ Head(query).val # <<>> THEN Head(query).val
    ELSE qs_get(Tail(query), key)

\* Lines 55-76: the prmID of the first urgencias.aspx link, "" otherwise.
parse_proyecto_id(c) ==
    IF not_content(c) THEN <<>>
    ELSE IF ~c.doc.parses THEN <<>>
    ELSE LET link == find_link(c.doc.links)
         IN  IF link.some THEN qs_get(link.val.query, "prmID") ELSE <<>>

\* A slip: the prmID is returned without being stored.
store_proyecto_id_never(cache, bol, prmID) == cache

\* Lines 72-73: only a non-empty prmID is stored.
store_proyecto_id(cache, bol, prmID) ==
    IF prmID # <<>> THEN DictPut(cache, bol, prmID) ELSE cache

(***************************************************************************)
(* fetch_urgencias's pieces.                                               *)
(***************************************************************************)
\* Line 85: f"{project_id}_{boletin}"
cache_key(pid, bol) == pid \o <<"_">> \o bol

\* Lines 106-109: the first table whose text holds one of the two phrases.
RECURSIVE target_table(_)
target_table(tables) ==
    IF tables = <<>> THEN None
    ELSE IF Head(tables).fecha_inicio \/ Head(tables).tipo_urgencia THEN Some(Head(tables))
    ELSE target_table(Tail(tables))

\* Lines 122-129: the record of one row of at least 5 cells.
u_data(cols) ==
    [urgencia_fecha_inicio |-> clean_text(Some(cols[1])),
     urgencia_fecha_termino |-> clean_text(Some(cols[2])),
     urgencia_tipo |-> clean_text(Some(cols[3])),
     urgencia_oficio |-> clean_text(Some(cols[4])),
     urgencia_mensaje_ing |-> clean_text(Some(cols[5])),
     urgencia_mensaje_ret |-> IF Len(cols) > 5 THEN clean_text(Some(cols[6])) ELSE <<>>]

\* A slip: `break` for `continue`, a short row ends the extraction.
RECURSIVE rows_to_urgencies_break(_)
rows_to_urgencies_break(rows) ==
    IF rows = <<>> THEN <<>>
    ELSE IF Len(Head(rows)) < 5 THEN <<>>
    ELSE <<u_data(Head(rows))>> \o rows_to_urgencies_break(Tail(rows))

\* Lines 114-130: one record per row of at least 5 cells, in row order.
RECURSIVE rows_to_urgencies(_)
rows_to_urgencies(rows) ==
    IF rows = <<>> THEN <<>>
    ELSE IF Len(Head(rows)) < 5 THEN rows_to_urgencies(Tail(rows))
    ELSE <<u_data(Head(rows))>> \o rows_to_urgencies(Tail(rows))

\* Lines 98-130, for a parsed page: rows[1:] of the target table.
parse_urgencias(doc) ==
    LET t == target_table(doc.tables)
    IN  IF t.some /\ t.val.rows # <<>> THEN rows_to_urgencies(Tail(t.val.rows)) ELSE <<>>

\* Lines 91-96: whether the page was fetched and parsed.
page_parsed(c) == ~not_content(c) /\ c.doc.parses

\* Lines 91-133: what fetch_urgencias returns after the fetch.
urgencias_result(c) == IF page_parsed(c) THEN parse_urgencias(c.doc) ELSE <<>>

\* Line 132: the list is stored whenever the page was fetched and parsed.
store_urgencias(cache, key, c) ==
    IF page_parsed(c) THEN DictPut(cache, key, parse_urgencias(c.doc)) ELSE cache

(***************************************************************************)
(* main's pieces.                                                          *)
(***************************************************************************)
EmptyUrgency ==
    [urgencia_fecha_inicio |-> <<>>, urgencia_fecha_termino |-> <<>>,
     urgencia_tipo |-> <<>>, urgencia_oficio |-> <<>>,
     urgencia_mensaje_ing |-> <<>>, urgencia_mensaje_ret |-> <<>>]

\* Lines 183-188 and 194-204: {vote_id, boletin, proyecto_id, **urg}
Row(vid, bol, pid, urg) ==
    [vote_id |-> vid, boletin |-> bol, proyecto_id |-> pid,
     urgencia_fecha_inicio |-> urg.urgencia_fecha_inicio,
     urgencia_fecha_termino |-> urg.urgencia_fecha_termino,
     urgencia_tipo |-> urg.urgencia_tipo,
     urgencia_oficio |-> urg.urgencia_oficio,
     urgencia_mensaje_ing |-> urg.urgencia_mensaje_ing,
     urgencia_mensaje_ret |-> urg.urgencia_mensaje_ret]

\* A slip: a chain without urgencies yields no row.
expand_rows_inner_join(vid, bol, pid, urgs) ==
    [i \in 1..Len(urgs) |-> Row(vid, bol, pid, urgs[i])]

\* A slip: the rows of a seed are appended last urgency first.
expand_rows_reversed(vid, bol, pid, urgs) ==
    IF urgs # <<>>
    THEN [i \in 1..Len(urgs) |-> Row(vid, bol, pid, urgs[Len(urgs) + 1 - i])]
    ELSE <<Row(vid, bol, pid, EmptyUrgency)>>

\* Lines 181-205: one row per urgency, or one row of empty urgency fields.
expand_rows(vid, bol, pid, urgs) ==
    IF urgs # <<>>
    THEN [i \in 1..Len(urgs) |-> Row(vid, bol, pid, urgs[i])]
    ELSE <<Row(vid, bol, pid, EmptyUrgency)>>

\* Line 152: the column headers that are digit strings.
numeric_columns(columns) == SelectSeq(columns, isdigit)

\* A slip: the test never finds the string empty.
is_empty_never(s) == FALSE

\* Python's `not x` for a string.
is_empty(s) == s = <<>>

(***************************************************************************)
(* State.                                                                  *)
(***************************************************************************)
VARIABLES
    input,                  \* the input CSV: exists, readable, its column headers
    upstream,               \* the fixed content of the upstream service, per URL
                            \* (empty when the service is free to answer anything)
    vote_ids,               \* main: the seed list
    idx,                    \* main: the position of the for loop in vote_ids
    pc,                     \* the statement the program is at
    boletin,                \* main: local
    project_id,             \* main: local
    urgency_list,           \* main: local
    results,                \* main: the accumulated rows
    output,                 \* the output CSV: written, rows
    vote_to_boletin,        \* module-level memo table
    boletin_to_project_id,  \* module-level memo table
    project_urgencies,      \* module-level memo table
    url,                    \* fetch_content: argument
    attempt,                \* fetch_content: loop variable
    content,                \* the stage function's local: fetch_content's result
    seed_state,             \* per seed, the state of its chain
    events,                 \* what the program did since the current loop iteration
                            \* began: log records, fetch_content calls, requests,
                            \* sleeps, table lookups (the program never reads them)
    fetch_calls,            \* per URL, the fetch_content calls of the whole run
    text,                   \* clean_text: the argument of the first call
    cleaned,                \* clean_text: the results of the calls made so far
    details,                \* fetch_votaciones.main: local
    bulletin_votings,       \* fetch_votaciones.main: local
    boletin_cache           \* fetch_votaciones: module-level memo table

vars ==
    <<input, upstream, vote_ids, idx, pc, boletin, project_id, urgency_list, results, output,
      vote_to_boletin, boletin_to_project_id, project_urgencies, url, attempt,
      content, seed_state, events, fetch_calls, text, cleaned, details,
      bulletin_votings, boletin_cache>>

\* The state of the normalizer on its own, and of the vote-metadata program.
Normalizer == <<text, cleaned>>
Votaciones == <<details, bulletin_votings, boletin_cache>>

Digits == <<"1", "2", "3", "4", "5", "6", "7", "8", "9">>
VoteId(i) == <<Digits[i]>>

\* A header row with n numeric headers between two that are not numeric.
\* pandas.read_csv renames a repeated header ("1", "1.1"), so the numeric
\* headers are distinct.
Headers(n) ==
    <<<<"i", "d">>>> \o [i \in 1..n |-> VoteId(i)] \o <<<<"1", ".", "1">>>>

Inputs ==
    { [exists |-> FALSE, readable |-> FALSE, columns |-> <<>>],
      [exists |-> TRUE, readable |-> FALSE, columns |-> <<>>] }
    \cup { [exists |-> TRUE, readable |-> TRUE, columns |-> Headers(n)] : n \in 0..MaxSeeds }

\* The state at the start of main, the memo tables as the module creates them
\* (lines 14-16).
Started ==
    /\ vote_ids = <<>>
    /\ idx = 0
    /\ pc = "main"
    /\ boletin = <<>>
    /\ project_id = <<>>
    /\ urgency_list = <<>>
    /\ results = <<>>
    /\ output = [written |-> FALSE, rows |-> <<>>]
    /\ vote_to_boletin = EmptyDict
    /\ boletin_to_project_id = EmptyDict
    /\ project_urgencies = EmptyDict
    /\ url = NoUrl
    /\ attempt = 0
    /\ content = NoContent
    /\ seed_state = <<>>
    /\ events = <<>>
    /\ fetch_calls = EmptyDict

\* No call of clean_text on its own has been made.
NormalizerIdle ==
    /\ text = None
    /\ cleaned = <<>>

\* fetch_votaciones.py as the module creates it (line 13), main not entered.
VotacionesIdle ==
    /\ details = None
    /\ bulletin_votings = <<>>
    /\ boletin_cache = EmptyDict

Init ==
    /\ input \in Inputs
    /\ upstream = EmptyDict
    /\ Started
    /\ NormalizerIdle
    /\ VotacionesIdle

vote_id == vote_ids[idx]

Calls(u) == IF u \in DOMAIN fetch_calls THEN fetch_calls[u] ELSE 0

\* The events of entering fetch_content(u), and the call counted.
CallFetch(u, lookup) ==
    /\ events' = events \o <<lookup, Ev("fetch", "fetch_content", u, 0)>>
    /\ fetch_calls' = DictPut(fetch_calls, u, Calls(u) + 1)
    /\ url' = u
    /\ attempt' = 0
    /\ pc' = "fetch_content"

\* Where fetch_content returns to.
ReturnPoint(u) ==
    IF u.endpoint = "retornarVotacionDetalle" THEN "boletin_fetched"
    ELSE IF u.endpoint = "tramitacion" THEN "proyecto_id_fetched"
    ELSE "urgencias_fetched"

Locals == <<boletin, project_id, urgency_list>>
Tables == <<vote_to_boletin, boletin_to_project_id, project_urgencies>>
Frame == <<url, attempt, content>>

(***************************************************************************)
(* main, lines 136-155: logging, the input file, the seed list.            *)
(***************************************************************************)
MainStart ==
    /\ pc = "main"
    /\ IF ~input.exists
       THEN /\ events' = <<Ev("info", "main", NoUrl, 0), Ev("error", "main", NoUrl, 0)>>
            /\ pc' = "exit"
            /\ UNCHANGED <<vote_ids, seed_state>>
       ELSE IF ~input.readable
       THEN /\ events' = <<Ev("info", "main", NoUrl, 0), Ev("error", "main", NoUrl, 1)>>
            /\ pc' = "exit"
            /\ UNCHANGED <<vote_ids, seed_state>>
       ELSE /\ vote_ids' = numeric_columns(input.columns)
            /\ seed_state' = [i \in 1..Len(numeric_columns(input.columns)) |-> "PENDING"]
            /\ events' = <<Ev("info", "main", NoUrl, 0),
                           Ev("info", "main", NoUrl, Len(numeric_columns(input.columns)))>>
            /\ pc' = "for"
    /\ UNCHANGED <<input, upstream, Normalizer, Votaciones, idx, Locals, results, output, Tables, Frame, fetch_calls>>

(***************************************************************************)
(* main, line 161: the next seed, or the end of the loop.                  *)
(***************************************************************************)
ForNext ==
    /\ pc = "for"
    /\ IF idx < Len(vote_ids)
       THEN /\ idx' = idx + 1
            /\ seed_state' = [seed_state EXCEPT ![idx + 1] = "START"]
            /\ pc' = "fetch_boletin_for_vote"
       ELSE /\ pc' = "save"
            /\ UNCHANGED <<idx, seed_state>>
    /\ events' = <<>>
    /\ UNCHANGED <<input, upstream, Normalizer, Votaciones, vote_ids, Locals, results, output, Tables, Frame, fetch_calls>>

(***************************************************************************)
(* fetch_boletin_for_vote, lines 22-26: the lookup, and the fetch on a     *)
(* miss.                                                                   *)
(***************************************************************************)
FetchBoletinForVote ==
    /\ pc = "fetch_boletin_for_vote"
    /\ IF in_cache(vote_to_boletin, vote_id)
       THEN /\ boletin' = vote_to_boletin[vote_id]
            /\ events' = Append(events, Ev("lookup", "vote_to_boletin", DetalleUrl(vote_id), 1))
            /\ pc' = "check_boletin"
            /\ UNCHANGED <<Frame, fetch_calls>>
       ELSE /\ CallFetch(DetalleUrl(vote_id),
                         Ev("lookup", "vote_to_boletin", DetalleUrl(vote_id), 0))
            /\ UNCHANGED <<boletin, content>>
    /\ UNCHANGED <<input, upstream, Normalizer, Votaciones, vote_ids, idx, project_id, urgency_list, results, output,
                   Tables, seed_state>>

(***************************************************************************)
(* A retry loop that sleeps the courtesy delay before the first request    *)
(* only, and the doubled delay after a failure only when a request         *)
(* follows.                                                                *)
(***************************************************************************)
FetchAttempt_courtesy_once ==
    /\ pc = "fetch_content"
    /\ in_range(attempt, retries)
    /\ \/ /\ events' = events
                \o (IF attempt = 0 THEN <<Ev("sleep", "fetch_content", url, 1)>> ELSE <<>>)
                \o <<Ev("get", "fetch_content", url, attempt + 1),
                     Ev("warning", "fetch_content", url, attempt + 1)>>
                \o (IF in_range(attempt + 1, retries)
                    THEN <<Ev("sleep", "fetch_content", url, 2)>> ELSE <<>>)
          /\ attempt' = attempt + 1
          /\ UNCHANGED <<pc, content, url>>
       \/ \E doc \in Responses(url) :
              /\ events' = events
                    \o (IF attempt = 0 THEN <<Ev("sleep", "fetch_content", url, 1)>> ELSE <<>>)
                    \o <<Ev("get", "fetch_content", url, attempt + 1)>>
              /\ content' = Bytes(doc)
              /\ pc' = ReturnPoint(url)
              /\ UNCHANGED <<attempt, url>>
    /\ UNCHANGED <<input, upstream, Normalizer, Votaciones, vote_ids, idx, Locals, results, output, Tables, seed_state,
                   fetch_calls>>

(***************************************************************************)
(* fetch_content, lines 23-31: one pass of the retry loop.                 *)
(***************************************************************************)
FetchAttempt ==
    /\ pc = "fetch_content"
    /\ in_range(attempt, retries)
    /\ \/ \* requests.get or raise_for_status raises RequestException
          /\ events' = events \o <<Ev("sleep", "fetch_content", url, 1),
                                   Ev("get", "fetch_content", url, attempt + 1),
                                   Ev("warning", "fetch_content", url, attempt + 1),
                                   Ev("sleep", "fetch_content", url, 2)>>
          /\ attempt' = attempt + 1
          /\ UNCHANGED <<pc, content, url>>
       \/ \* a success status: return response.content
          \E doc \in Responses(url) :
              /\ events' = events \o <<Ev("sleep", "fetch_content", url, 1),
                                       Ev("get", "fetch_content", url, attempt + 1)>>
              /\ content' = Bytes(doc)
              /\ pc' = ReturnPoint(url)
              /\ UNCHANGED <<attempt, url>>
    /\ UNCHANGED <<input, upstream, Normalizer, Votaciones, vote_ids, idx, Locals, results, output, Tables, seed_state,
                   fetch_calls>>

(***************************************************************************)
(* fetch_content, lines 33-34: the loop is exhausted.                      *)
(***************************************************************************)
FetchExhausted ==
    /\ pc = "fetch_content"
    /\ ~in_range(attempt, retries)
    /\ events' = Append(events, Ev("error", "fetch_content", url, attempt))
    /\ content' = NoContent
    /\ pc' = ReturnPoint(url)
    /\ UNCHANGED <<input, upstream, Normalizer, Votaciones, vote_ids, idx, Locals, results, output, Tables, url, attempt,
                   seed_state, fetch_calls>>

(***************************************************************************)
(* fetch_boletin_for_vote, lines 27-42: after the fetch.                   *)
(***************************************************************************)
BoletinFetched ==
    /\ pc = "boletin_fetched"
    /\ boletin' = parse_boletin(content)
    /\ vote_to_boletin' = store_boletin(vote_to_boletin, vote_id, parse_boletin(content))
    /\ url' = NoUrl
    /\ attempt' = 0
    /\ content' = NoContent
    /\ pc' = "check_boletin"
    /\ UNCHANGED <<input, upstream, Normalizer, Votaciones, vote_ids, idx, project_id, urgency_list, results, output,
                   boletin_to_project_id, project_urgencies, seed_state, events,
                   fetch_calls>>

\* A slip: `break` for `continue`, the loop ends at the first seed without
\* a bulletin.
CheckBoletin_break ==
    /\ pc = "check_boletin"
    /\ IF is_empty(boletin)
       THEN /\ seed_state' = [seed_state EXCEPT ![idx] = "FAILED_bulletin"]
            /\ pc' = "save"
       ELSE /\ seed_state' = [seed_state EXCEPT ![idx] = "HAVE_BULLETIN"]
            /\ pc' = "fetch_proyecto_id_from_tramitacion"
    /\ UNCHANGED <<input, upstream, Normalizer, Votaciones, vote_ids, idx, Locals, results, output, Tables, Frame, events,
                   fetch_calls>>

(***************************************************************************)
(* main, lines 164-165: skip the seed without a bulletin.                  *)
(***************************************************************************)
CheckBoletin ==
    /\ pc = "check_boletin"
    /\ IF is_empty(boletin)
       THEN /\ seed_state' = [seed_state EXCEPT ![idx] = "FAILED_bulletin"]
            /\ pc' = "for"
       ELSE /\ seed_state' = [seed_state EXCEPT ![idx] = "HAVE_BULLETIN"]
            /\ pc' = "fetch_proyecto_id_from_tramitacion"
    /\ UNCHANGED <<input, upstream, Normalizer, Votaciones, vote_ids, idx, Locals, results, output, Tables, Frame, events,
                   fetch_calls>>

(***************************************************************************)
(* fetch_proyecto_id_from_tramitacion, lines 48-54: the guard, the lookup, *)
(* and the fetch on a miss.                                                *)
(***************************************************************************)
FetchProyectoId ==
    /\ pc = "fetch_proyecto_id_from_tramitacion"
    /\ IF is_empty(boletin)
       THEN /\ project_id' = <<>>
            /\ pc' = "check_project_id"
            /\ UNCHANGED <<Frame, fetch_calls, events>>
       ELSE IF in_cache(boletin_to_project_id, boletin)
       THEN /\ project_id' = boletin_to_project_id[boletin]
            /\ events' = Append(events, Ev("lookup", "boletin_to_project_id",
                                           TramitacionUrl(boletin), 1))
            /\ pc' = "check_project_id"
            /\ UNCHANGED <<Frame, fetch_calls>>
       ELSE /\ CallFetch(TramitacionUrl(boletin),
                         Ev("lookup", "boletin_to_project_id", TramitacionUrl(boletin), 0))
            /\ UNCHANGED <<project_id, content>>
    /\ UNCHANGED <<input, upstream, Normalizer, Votaciones, vote_ids, idx, boletin, urgency_list, results, output, Tables,
                   seed_state>>

(***************************************************************************)
(* fetch_proyecto_id_from_tramitacion, lines 55-76: after the fetch.       *)
(***************************************************************************)
ProyectoIdFetched ==
    /\ pc = "proyecto_id_fetched"
    /\ project_id' = parse_proyecto_id(content)
    /\ boletin_to_project_id' =
           store_proyecto_id(boletin_to_project_id, boletin, parse_proyecto_id(content))
    /\ url' = NoUrl
    /\ attempt' = 0
    /\ content' = NoContent
    /\ pc' = "check_project_id"
    /\ UNCHANGED <<input, upstream, Normalizer, Votaciones, vote_ids, idx, boletin, urgency_list, results, output,
                   vote_to_boletin, project_urgencies, seed_state, events, fetch_calls>>

\* A slip: the seed without a project id is skipped without the warning.
CheckProjectId_silent ==
    /\ pc = "check_project_id"
    /\ IF is_empty(project_id)
       THEN /\ seed_state' = [seed_state EXCEPT ![idx] = "FAILED_project"]
            /\ pc' = "for"
       ELSE /\ seed_state' = [seed_state EXCEPT ![idx] = "HAVE_PROJECT"]
            /\ pc' = "fetch_urgencias"
    /\ UNCHANGED <<input, upstream, Normalizer, Votaciones, vote_ids, idx, Locals, results, output, Tables, Frame, events,
                   fetch_calls>>

(***************************************************************************)
(* main, lines 169-171: warn and skip the seed without a project id.       *)
(***************************************************************************)
CheckProjectId ==
    /\ pc = "check_project_id"
    /\ IF is_empty(project_id)
       THEN /\ events' = Append(events, Ev("warning", "main", TramitacionUrl(boletin), 0))
            /\ seed_state' = [seed_state EXCEPT ![idx] = "FAILED_project"]
            /\ pc' = "for"
       ELSE /\ seed_state' = [seed_state EXCEPT ![idx] = "HAVE_PROJECT"]
            /\ pc' = "fetch_urgencias"
            /\ UNCHANGED events
    /\ UNCHANGED <<input, upstream, Normalizer, Votaciones, vote_ids, idx, Locals, results, output, Tables, Frame,
                   fetch_calls>>

(***************************************************************************)
(* fetch_urgencias, lines 82-90: the guard, the lookup, and the fetch on a *)
(* miss.                                                                   *)
(***************************************************************************)
FetchUrgencias ==
    /\ pc = "fetch_urgencias"
    /\ IF is_empty(project_id)
       THEN /\ urgency_list' = <<>>
            /\ pc' = "expand"
            /\ UNCHANGED <<Frame, fetch_calls, events>>
       ELSE IF in_cache(project_urgencies, cache_key(project_id, boletin))
       THEN /\ urgency_list' = project_urgencies[cache_key(project_id, boletin)]
            /\ events' = Append(events, Ev("lookup", "project_urgencies",
                                           UrgenciasUrl(project_id, boletin), 1))
            /\ pc' = "expand"
            /\ UNCHANGED <<Frame, fetch_calls>>
       ELSE /\ CallFetch(UrgenciasUrl(project_id, boletin),
                         Ev("lookup", "project_urgencies",
                            UrgenciasUrl(project_id, boletin), 0))
            /\ UNCHANGED <<urgency_list, content>>
    /\ UNCHANGED <<input, upstream, Normalizer, Votaciones, vote_ids, idx, boletin, project_id, results, output, Tables,
                   seed_state>>

(***************************************************************************)
(* fetch_urgencias, lines 91-133: after the fetch.                         *)
(***************************************************************************)
UrgenciasFetched ==
    /\ pc = "urgencias_fetched"
    /\ urgency_list' = urgencias_result(content)
    /\ project_urgencies' =
           store_urgencias(project_urgencies, cache_key(project_id, boletin), content)
    /\ url' = NoUrl
    /\ attempt' = 0
    /\ content' = NoContent
    /\ pc' = "expand"
    /\ UNCHANGED <<input, upstream, Normalizer, Votaciones, vote_ids, idx, boletin, project_id, results, output,
                   vote_to_boletin, boletin_to_project_id, seed_state, events,
                   fetch_calls>>

(***************************************************************************)
(* main, lines 181-205: the rows of the seed are appended.                 *)
(***************************************************************************)
Expand ==
    /\ pc = "expand"
    /\ results' = results \o expand_rows(vote_id, boletin, project_id, urgency_list)
    /\ seed_state' = [seed_state EXCEPT ![idx] = "DONE"]
    /\ pc' = "for"
    /\ UNCHANGED <<input, upstream, Normalizer, Votaciones, vote_ids, idx, Locals, output, Tables, Frame, events,
                   fetch_calls>>

(***************************************************************************)
(* main, lines 207-212: the rows are written, or a warning is logged.      *)
(***************************************************************************)
Save ==
    /\ pc = "save"
    /\ IF results # <<>>
       THEN /\ output' = [written |-> TRUE, rows |-> results]
            /\ events' = Append(events, Ev("info", "main", NoUrl, Len(results)))
       ELSE /\ events' = Append(events, Ev("warning", "main", NoUrl, 0))
            /\ UNCHANGED output
    /\ pc' = "exit"
    /\ UNCHANGED <<input, upstream, Normalizer, Votaciones, vote_ids, idx, Locals, results, Tables, Frame, seed_state,
                   fetch_calls>>

Next ==
    \/ MainStart
    \/ ForNext
    \/ FetchBoletinForVote
    \/ FetchAttempt
    \/ FetchExhausted
    \/ BoletinFetched
    \/ CheckBoletin
    \/ FetchProyectoId
    \/ ProyectoIdFetched
    \/ CheckProjectId
    \/ FetchUrgencias
    \/ UrgenciasFetched
    \/ Expand
    \/ Save

Spec == Init /\ [][Next]_vars

(***************************************************************************)
(* The same program against fixed upstream content: every URL always       *)
(* answers with the same document and no request fails.                    *)
(***************************************************************************)
\* The longest seed list run against fixed content.
MaxFixedSeeds == 3

\* The bulletins and project ids the sample documents can yield.
Bulletins == {<<"3">>, <<"2", "_", "3">>}
ProjectIds == {<<"1">>, <<"1", "_", "2">>}

\* The URLs the program can request for a seed list of n votes.
UrlsOf(n) ==
    {DetalleUrl(VoteId(i)) : i \in 1..n}
        \cup {TramitacionUrl(b) : b \in Bulletins}
        \cup {UrgenciasUrl(p, b) : p \in ProjectIds, b \in Bulletins}

\* The documents a fixed upstream is drawn from: per endpoint, one that
\* yields nothing and two that yield different values.
FixedResponses(u) ==
    IF u.endpoint = "retornarVotacionDetalle"
    THEN << XmlDoc(<<Elem("Resultado", Some(<<"s", "i">>))>>),
           XmlDoc(<<Elem("Resultado", Some(<<"n", "o">>)),
                    Elem("Boletin", Some(<<" ", "3", "\n">>))>>),
           XmlDoc(<<Elem("Boletin", Some(<<"2", "_", "3">>)),
                    Elem("Boletin", Some(<<"3">>))>>) >>
    ELSE IF u.endpoint = "tramitacion"
    THEN << HtmlLinks(<<Link(FALSE, <<Param("prmID", <<"8">>)>>)>>),
           HtmlLinks(<<Link(FALSE, <<>>),
                       Link(TRUE, <<Param("prmID", <<"1">>),
                                    Param("prmBOLETIN", <<"3">>)>>)>>),
           HtmlLinks(<<Link(TRUE, <<Param("prmBOLETIN", <<"3">>),
                                    Param("prmID", <<"1", "_", "2">>),
                                    Param("prmID", <<"1">>)>>)>>) >>
    ELSE << Unparseable,
           HtmlTables(<<Table(FALSE, FALSE, <<HeaderRow, RowB>>),
                        Table(TRUE, FALSE, <<HeaderRow, RowA, ShortRow, RowB>>),
                        Table(TRUE, TRUE, <<HeaderRow, RowB>>)>>),
           HtmlTables(<<Table(FALSE, TRUE, <<HeaderRow, RowB>>)>>) >>

\* Every assignment of documents to the seeds is drawn, so the seed list in
\* header order stands for every order of the seeds.
FixedInit ==
    /\ \E n \in 1..MaxFixedSeeds :
          /\ input = [exists |-> TRUE, readable |-> TRUE, columns |-> Headers(n)]
          /\ \E pick \in [UrlsOf(n) -> DOMAIN FixedResponses(NoUrl)] :
                upstream = [u \in UrlsOf(n) |-> FixedResponses(u)[pick[u]]]
    /\ Started
    /\ NormalizerIdle
    /\ VotacionesIdle

\* fetch_content, lines 23-28, when the first request succeeds: the URL's
\* document is returned.
FetchFixed ==
    /\ pc = "fetch_content"
    /\ in_range(attempt, retries)
    /\ events' = events \o <<Ev("sleep", "fetch_content", url, 1),
                             Ev("get", "fetch_content", url, attempt + 1)>>
    /\ content' = Bytes(upstream[url])
    /\ pc' = ReturnPoint(url)
    /\ UNCHANGED <<input, upstream, Normalizer, Votaciones, vote_ids, idx, Locals, results, output, Tables,
                   seed_state, fetch_calls, attempt, url>>

FixedNext ==
    \/ MainStart
    \/ ForNext
    \/ FetchBoletinForVote
    \/ FetchFixed
    \/ BoletinFetched
    \/ CheckBoletin
    \/ FetchProyectoId
    \/ ProyectoIdFetched
    \/ CheckProjectId
    \/ FetchUrgencias
    \/ UrgenciasFetched
    \/ Expand
    \/ Save

FixedSpec == FixedInit /\ [][FixedNext]_vars

\* The driver is one sequential control flow and every request has a
\* timeout (utils.py:26): a step that can be taken is taken.
FairSpec == Spec /\ WF_vars(Next)

(***************************************************************************)
(* Vocabulary of the properties.                                           *)
(***************************************************************************)
Seeds == 1..Len(vote_ids)

\* The rows accumulated for seed i, in their order in results.
RowsOf(i) == SelectSeq(results, LAMBDA r : r.vote_id = vote_ids[i])

\* The six urgency fields of a row.
UrgencyOf(r) ==
    [urgencia_fecha_inicio |-> r.urgencia_fecha_inicio,
     urgencia_fecha_termino |-> r.urgencia_fecha_termino,
     urgencia_tipo |-> r.urgencia_tipo,
     urgencia_oficio |-> r.urgencia_oficio,
     urgencia_mensaje_ing |-> r.urgencia_mensaje_ing,
     urgencia_mensaje_ret |-> r.urgencia_mensaje_ret]

IsPrefix(s, t) == Len(s) <= Len(t) /\ SubSeq(t, 1, Len(s)) = s

Max(a, b) == IF a >= b THEN a ELSE b

\* The events of the current loop iteration of one kind, written by who.
EventsOf(kind, who) == SelectSeq(events, LAMBDA e : e.kind = kind /\ e.who = who)

\* The fetch_content calls of the current loop iteration to an endpoint.
FetchesTo(endpoint) ==
    SelectSeq(events, LAMBDA e : e.kind = "fetch" /\ e.url.endpoint = endpoint)

\* The events of the fetch_content call in progress or last returned: those
\* from the last "fetch" event on.
RECURSIVE LastCall(_)
LastCall(evs) ==
    IF evs = <<>> THEN <<>>
    ELSE IF evs[Len(evs)].kind = "fetch" THEN <<>>
    ELSE Append(LastCall(SubSeq(evs, 1, Len(evs) - 1)), evs[Len(evs)])

CallCount(kind) == Len(SelectSeq(LastCall(events), LAMBDA e : e.kind = kind))

ReturnPoints == {"boletin_fetched", "proyecto_id_fetched", "urgencias_fetched"}

\* The current seed is past fetch_boletin_for_vote, which returned "".
BoletinCameBackEmpty ==
    /\ idx >= 1
    /\ pc = "check_boletin" \/ seed_state[idx] # "START"
    /\ boletin = <<>>

\* The current seed has a bulletin and is past
\* fetch_proyecto_id_from_tramitacion, which returned "".
ProjectIdCameBackEmpty ==
    /\ idx >= 1
    /\ boletin # <<>>
    /\ \/ pc = "check_project_id"
       \/ seed_state[idx] \in {"HAVE_PROJECT", "FAILED_project", "DONE"}
    /\ project_id = <<>>

(***************************************************************************)
(* C1  Left-join completeness.  A seed whose chain resolved (non-empty     *)
(* bulletin and project id) has max(1, number of urgency records returned  *)
(* for it) rows, never zero; when the urgency list is empty it has exactly *)
(* one row, carrying vote_id, boletin, proyecto_id and six empty urgency   *)
(* fields.                                                                 *)
(***************************************************************************)
\* C1: a DONE seed has max(1, len(urgency_list)) rows carrying its chain, and
\* the one row of an empty list has six empty urgency fields.
C1_LeftJoinComplete ==
    /\ \A i \in Seeds : seed_state[i] = "DONE" => Len(RowsOf(i)) >= 1
    /\ (idx >= 1 /\ pc = "expand") => boletin # <<>> /\ project_id # <<>>
    /\ (idx >= 1 /\ seed_state[idx] = "DONE") =>
          /\ Len(RowsOf(idx)) = Max(1, Len(urgency_list))
          /\ \A k \in 1..Len(RowsOf(idx)) :
                /\ RowsOf(idx)[k].boletin = boletin /\ boletin # <<>>
                /\ RowsOf(idx)[k].proyecto_id = project_id /\ project_id # <<>>
          /\ urgency_list = <<>> =>
                RowsOf(idx) =
                    << [vote_id |-> vote_ids[idx], boletin |-> boletin,
                        proyecto_id |-> project_id,
                        urgencia_fecha_inicio |-> <<>>, urgencia_fecha_termino |-> <<>>,
                        urgencia_tipo |-> <<>>, urgencia_oficio |-> <<>>,
                        urgencia_mensaje_ing |-> <<>>, urgencia_mensaje_ret |-> <<>>] >>

\* Seed 1 resolved with two urgencies and has two rows; seed 2 resolved with
\* none and has its one row.
C1_Witness ==
    /\ idx = 2
    /\ seed_state = <<"DONE", "DONE">>
    /\ Len(RowsOf(1)) = 2
    /\ urgency_list = <<>>
    /\ Len(RowsOf(2)) = 1

(***************************************************************************)
(* C2  Memoization of the tramitacion stage.                               *)
(***************************************************************************)
\* The seeds whose chain failed at the project stage on bulletin bol.
FailedProjectOn(bol) ==
    {i \in Seeds : /\ seed_state[i] = "FAILED_project"
                   /\ vote_ids[i] \in DOMAIN vote_to_boletin
                   /\ vote_to_boletin[vote_ids[i]] = bol}

\* C2 as claimed: tramitacion is fetched at most once per bulletin over the
\* whole run, whatever the outcome of that fetch.
C2_AtMostOncePerBulletin ==
    \A u \in DOMAIN fetch_calls : u.endpoint = "tramitacion" => fetch_calls[u] <= 1

\* C2 as amended: tramitacion is fetched for a bulletin at most once more
\* than there are seeds whose project stage failed on that bulletin, and
\* once the bulletin's project id is stored exactly once more: no fetch of
\* it follows the one that found the project id.
C2_AtMostOncePerFoundProject ==
    \A u \in DOMAIN fetch_calls :
        u.endpoint = "tramitacion" =>
            /\ fetch_calls[u] <= Cardinality(FailedProjectOn(u.prmBoletin)) + 1
            /\ u.prmBoletin \in DOMAIN boletin_to_project_id =>
                  fetch_calls[u] = Cardinality(FailedProjectOn(u.prmBoletin)) + 1

\* Two seeds resolved to the same bulletin, both have their project id, and
\* tramitacion was fetched once for it.
C2_Witness ==
    /\ idx = 2
    /\ seed_state[1] = "DONE"
    /\ seed_state[2] \in {"HAVE_PROJECT", "DONE"}
    /\ vote_to_boletin[vote_ids[1]] = boletin
    /\ vote_to_boletin[vote_ids[2]] = boletin
    /\ fetch_calls[TramitacionUrl(boletin)] = 1

(***************************************************************************)
(* C3  Chain short-circuit.  While a seed whose bulletin came back empty   *)
(* is being processed, neither tramitacion nor urgencias is fetched, the   *)
(* driver goes on to the next seed, and the seed has no row.               *)
(***************************************************************************)
\* C3: after an empty bulletin, no tramitacion or urgencias fetch in the
\* iteration, the driver is on its way to the next seed, and no row.
C3_ShortCircuit ==
    /\ BoletinCameBackEmpty =>
          /\ FetchesTo("tramitacion") = <<>>
          /\ FetchesTo("urgencias") = <<>>
          /\ pc \in {"check_boletin", "for", "save", "exit"}
          /\ RowsOf(idx) = <<>>
    /\ \A i \in Seeds : seed_state[i] = "FAILED_bulletin" => RowsOf(i) = <<>>

\* The second seed was skipped for its empty bulletin after the first one
\* went through the whole chain.
C3_Witness ==
    /\ idx = 2
    /\ seed_state = <<"DONE", "FAILED_bulletin">>
    /\ pc = "for"
    /\ boletin = <<>>
    /\ Len(FetchesTo("retornarVotacionDetalle")) = 1

(***************************************************************************)
(* C4  Retry bound.  A fetch_content call makes at most `retries`          *)
(* requests, one warning per failed request; when all fail it has made     *)
(* exactly `retries` requests, logged `retries` warnings and one error,    *)
(* and returns None; when one succeeds it logs no error.                   *)
(***************************************************************************)
\* C4: at most `retries` requests per call; exactly `retries` requests,
\* `retries` warnings, one error and None when all of them fail.
C4_RetryBound ==
    /\ pc \in ReturnPoints \cup {"fetch_content"} =>
          /\ CallCount("get") <= retries
          /\ CallCount("warning") <= CallCount("get")
    /\ (pc \in ReturnPoints /\ content.isNone) =>
          /\ CallCount("get") = retries
          /\ CallCount("warning") = retries
          /\ CallCount("error") = 1
    /\ (pc \in ReturnPoints /\ ~content.isNone) =>
          /\ CallCount("error") = 0
          /\ CallCount("warning") = CallCount("get") - 1

\* Every request of a call failed and the call has returned.
C4_Witness ==
    /\ pc \in ReturnPoints
    /\ content.isNone
    /\ CallCount("get") = 3

(***************************************************************************)
(* C5  No negative caching.                                                *)
(***************************************************************************)
\* C5 as claimed: none of the three tables ever holds an entry written by a
\* lookup that yielded no value ("" for the first two, [] for the third).
C5_NoEmptyEntry ==
    /\ \A k \in DOMAIN vote_to_boletin : vote_to_boletin[k] # <<>>
    /\ \A k \in DOMAIN boletin_to_project_id : boletin_to_project_id[k] # <<>>
    /\ \A k \in DOMAIN project_urgencies : project_urgencies[k] # <<>>

\* fetch_urgencias is back from a fetch that gave no page: no content, an
\* empty body, or a body that does not parse.
NoPageFetched ==
    /\ pc = "urgencias_fetched"
    /\ content.isNone \/ content.doc.empty \/ ~content.doc.parses

\* C5 as amended: vote_to_boletin and boletin_to_project_id never hold an
\* empty value, and a lookup of them that came back empty leaves its key
\* absent; project_urgencies is left unchanged by a lookup that got no page,
\* and gets a new entry (the empty list included) only from a page that was
\* fetched and parsed.
C5_NoNegativeCaching ==
    /\ [](/\ \A k \in DOMAIN vote_to_boletin : vote_to_boletin[k] # <<>>
          /\ \A k \in DOMAIN boletin_to_project_id : boletin_to_project_id[k] # <<>>
          /\ BoletinCameBackEmpty => vote_ids[idx] \notin DOMAIN vote_to_boletin
          /\ ProjectIdCameBackEmpty => boletin \notin DOMAIN boletin_to_project_id)
    /\ [][/\ NoPageFetched => project_urgencies' = project_urgencies
          /\ DOMAIN project_urgencies' # DOMAIN project_urgencies =>
                pc = "urgencias_fetched" /\ ~NoPageFetched]_vars

\* The project stage failed for seed 1, nothing was stored, and seed 2,
\* which resolved to the same bulletin, fetched tramitacion again.
C5_Witness ==
    /\ idx = 2
    /\ seed_state[1] = "FAILED_project"
    /\ vote_ids[1] \in DOMAIN vote_to_boletin
    /\ vote_to_boletin[vote_ids[1]] = boletin
    /\ fetch_calls[TramitacionUrl(boletin)] = 2

(***************************************************************************)
(* C6  Cache-hit reuse.  A key that is stored is not fetched again and its *)
(* lookup returns the stored value; in one loop iteration each table is    *)
(* looked up at most once (exactly once when its stage is passed) and      *)
(* fetch_content is called at most once per stage, on a miss only.         *)
(***************************************************************************)
Lookups(table) == EventsOf("lookup", table)
Misses(table) == SelectSeq(Lookups(table), LAMBDA e : e.n = 0)

\* The key of URL u is stored in the table of u's stage.
Stored(u) ==
    \/ u.endpoint = "retornarVotacionDetalle" /\ u.prmID \in DOMAIN vote_to_boletin
    \/ u.endpoint = "tramitacion" /\ u.prmBoletin \in DOMAIN boletin_to_project_id
    \/ /\ u.endpoint = "urgencias"
       /\ u.prmID \o <<"_">> \o u.prmBoletin \in DOMAIN project_urgencies

\* C6: per loop iteration at most one lookup per table and one fetch per
\* miss; a lookup of a stored key returns the stored value; a URL whose key
\* is stored is never fetched again.
C6_CacheHitReuse ==
    /\ [](/\ Len(Lookups("vote_to_boletin")) <= 1
          /\ Len(Lookups("boletin_to_project_id")) <= 1
          /\ Len(Lookups("project_urgencies")) <= 1
          /\ Len(FetchesTo("retornarVotacionDetalle")) = Len(Misses("vote_to_boletin"))
          /\ Len(FetchesTo("tramitacion")) = Len(Misses("boletin_to_project_id"))
          /\ Len(FetchesTo("urgencias")) = Len(Misses("project_urgencies"))
          /\ (idx >= 1 /\ pc \notin {"save", "exit"}) =>
                /\ seed_state[idx] # "START" => Len(Lookups("vote_to_boletin")) = 1
                /\ seed_state[idx] \in {"HAVE_PROJECT", "FAILED_project", "DONE"} =>
                      Len(Lookups("boletin_to_project_id")) = 1
                /\ seed_state[idx] = "DONE" => Len(Lookups("project_urgencies")) = 1
          /\ (pc = "check_boletin" /\ vote_ids[idx] \in DOMAIN vote_to_boletin) =>
                boletin = vote_to_boletin[vote_ids[idx]]
          /\ (pc = "check_project_id" /\ boletin \in DOMAIN boletin_to_project_id) =>
                project_id = boletin_to_project_id[boletin]
          /\ (pc = "expand"
                /\ project_id \o <<"_">> \o boletin \in DOMAIN project_urgencies) =>
                urgency_list = project_urgencies[project_id \o <<"_">> \o boletin])
    /\ [][\A u \in DOMAIN fetch_calls' :
              Stored(u) => /\ u \in DOMAIN fetch_calls
                           /\ fetch_calls'[u] = fetch_calls[u]]_vars

\* Seed 2 shares bulletin and project with seed 1: both of its lookups were
\* hits and it is done without a tramitacion or urgencias fetch.
C6_Witness ==
    /\ idx = 2
    /\ seed_state = <<"DONE", "DONE">>
    /\ Len(Lookups("boletin_to_project_id")) = 1
    /\ Misses("boletin_to_project_id") = <<>>
    /\ Len(Lookups("project_urgencies")) = 1
    /\ Misses("project_urgencies") = <<>>
    /\ FetchesTo("tramitacion") = <<>>
    /\ FetchesTo("urgencias") = <<>>

(***************************************************************************)
(* C7  Bulletin failure is reported.  A seed whose structured record       *)
(* yields an empty bulletin gets no row and exactly one warning is logged  *)
(* for it before the driver goes on to the next seed.                      *)
(***************************************************************************)
Warnings == SelectSeq(events, LAMBDA e : e.kind = "warning")

\* C7 as claimed: a seed that failed for its empty bulletin has no row and
\* exactly one warning in the log records of its loop iteration.
C7_OneWarningForEmptyBulletin ==
    (idx >= 1 /\ seed_state[idx] = "FAILED_bulletin") =>
        /\ RowsOf(idx) = <<>>
        /\ Len(Warnings) = 1

(***************************************************************************)
(* C8  Project failure is terminal and reported.  For a seed with a        *)
(* bulletin whose project id came back empty the driver logs one warning   *)
(* naming the bulletin, fetches no urgency listing, goes on to the next    *)
(* seed and appends no row; the seed stays in FAILED(project).             *)
(***************************************************************************)
\* C8: after an empty project id, one driver warning naming the bulletin,
\* no urgencias fetch, no row, and FAILED(project) is never left.
C8_ProjectFailure ==
    /\ [](/\ ProjectIdCameBackEmpty =>
                /\ FetchesTo("urgencias") = <<>>
                /\ pc \in {"check_project_id", "for", "save", "exit"}
                /\ RowsOf(idx) = <<>>
                /\ pc = "for" =>
                      /\ seed_state[idx] = "FAILED_project"
                      /\ Len(EventsOf("warning", "main")) = 1
                      /\ EventsOf("warning", "main")[1].url.prmBoletin = boletin
          /\ \A i \in Seeds : seed_state[i] = "FAILED_project" => RowsOf(i) = <<>>)
    /\ [][\A i \in Seeds :
              seed_state[i] = "FAILED_project" => seed_state'[i] = "FAILED_project"]_vars

\* The tramitacion page was fetched at the first request and held no usable
\* link: the seed failed at the project stage with the driver's warning.
C8_Witness ==
    /\ idx = 1
    /\ pc = "for"
    /\ seed_state[1] = "FAILED_project"
    /\ boletin # <<>>
    /\ Len(FetchesTo("tramitacion")) = 1
    /\ EventsOf("warning", "fetch_content") = <<>>
    /\ Len(EventsOf("warning", "main")) = 1

(***************************************************************************)
(* C9  Per-seed failure isolation and progress.  The run reaches its end;  *)
(* at the end every seed of the list is DONE or FAILED, whatever failed    *)
(* before it; the rows accumulated so far are never removed or altered.    *)
(***************************************************************************)
\* C9: the run eventually exits with every seed DONE or FAILED, every
\* numeric header having been a seed, and results only ever grows.
C9_IsolationAndProgress ==
    /\ <>(pc = "exit")
    /\ [](pc = "exit" =>
            \A i \in Seeds :
                seed_state[i] \in {"DONE", "FAILED_bulletin", "FAILED_project"})
    /\ [](pc \in {"save", "exit"} /\ input.readable =>
            Len(vote_ids) = Len(input.columns) - 2 /\ idx = Len(vote_ids))
    /\ [][IsPrefix(results, results')]_vars

\* The run ended with the first seed failed and the second one resolved.
C9_Witness ==
    /\ pc = "exit"
    /\ Len(vote_ids) = 2
    /\ seed_state[1] \in {"FAILED_bulletin", "FAILED_project"}
    /\ seed_state[2] = "DONE"
    /\ RowsOf(2) # <<>>

(***************************************************************************)
(* C10  Output ordering.  The rows are in seed order; the rows of a seed   *)
(* carry its urgency list in the list's order, which is the order of the   *)
(* table rows in the page; rows once appended stay as they are, and the    *)
(* file written holds them unchanged, duplicates included.                 *)
(***************************************************************************)
\* The position in vote_ids of the seed of a row.
SeedOf(r) == CHOOSE i \in Seeds : vote_ids[i] = r.vote_id

\* The records of the rows RowA and RowB of the sample pages, normalized.
UrgencyA ==
    [urgencia_fecha_inicio |-> <<"a">>, urgencia_fecha_termino |-> <<"b">>,
     urgencia_tipo |-> <<"c", " ", "d">>, urgencia_oficio |-> <<>>,
     urgencia_mensaje_ing |-> <<"e">>, urgencia_mensaje_ret |-> <<"f">>]
UrgencyB ==
    [urgencia_fecha_inicio |-> <<"g">>, urgencia_fecha_termino |-> <<>>,
     urgencia_tipo |-> <<"h">>, urgencia_oficio |-> <<"i">>,
     urgencia_mensaje_ing |-> <<"j">>, urgencia_mensaje_ret |-> <<>>]

\* C10: rows are in seed order, a seed's rows follow its urgency list, the
\* list follows the page's row order, results only grows at its end, and
\* the file written is results as it stands.
C10_OutputOrdering ==
    /\ [](/\ \A p, q \in 1..Len(results) :
                p < q => SeedOf(results[p]) <= SeedOf(results[q])
          /\ (idx >= 1 /\ seed_state[idx] = "DONE" /\ urgency_list # <<>>) =>
                /\ Len(RowsOf(idx)) = Len(urgency_list)
                /\ \A k \in 1..Len(urgency_list) :
                      UrgencyOf(RowsOf(idx)[k]) = urgency_list[k]
          /\ pc = "expand" => urgency_list \in {<<>>, <<UrgencyA, UrgencyB>>, <<UrgencyB>>}
          /\ output.written => output.rows = results)
    /\ [][IsPrefix(results, results')]_vars

\* Two seeds share bulletin and project: each has its two rows, in the
\* page's order, and the rows of the second repeat those of the first.
C10_Witness ==
    /\ pc = "exit"
    /\ output.written
    /\ Len(output.rows) = 4
    /\ output.rows[1].vote_id = vote_ids[1] /\ output.rows[2].vote_id = vote_ids[1]
    /\ output.rows[3].vote_id = vote_ids[2] /\ output.rows[4].vote_id = vote_ids[2]
    /\ UrgencyOf(output.rows[1]) = UrgencyA /\ UrgencyOf(output.rows[2]) = UrgencyB
    /\ UrgencyOf(output.rows[3]) = UrgencyA /\ UrgencyOf(output.rows[4]) = UrgencyB
    /\ output.rows[1].boletin = output.rows[3].boletin

(***************************************************************************)
(* C11  Deterministic, cache-consistent resolution.  Against fixed         *)
(* upstream content the rows of a seed are those the chain yields when     *)
(* every stage is computed afresh from the upstream documents, whatever    *)
(* was processed before it.                                                *)
(***************************************************************************)
\* The rows of a seed resolved without the memo tables: each stage fetches
\* its own URL and parses the document it gets.
RowsAfresh(vid) ==
    LET bol == parse_boletin(Bytes(upstream[DetalleUrl(vid)]))
        pid == parse_proyecto_id(Bytes(upstream[TramitacionUrl(bol)]))
        urgs == urgencias_result(Bytes(upstream[UrgenciasUrl(pid, bol)]))
    IN  IF bol = <<>> THEN <<>>
        ELSE IF pid = <<>> THEN <<>>
        ELSE expand_rows(vid, bol, pid, urgs)

\* C11 as claimed: under fixed upstream content a seed that is DONE or
\* FAILED has exactly the rows the pipeline without caches gives it.
C11_SameRowsAsWithoutCaches ==
    \A i \in Seeds :
        seed_state[i] \in {"DONE", "FAILED_bulletin", "FAILED_project"} =>
            RowsOf(i) = RowsAfresh(vote_ids[i])

(***************************************************************************)
(* clean_text on its own: a text is drawn, the normalizer is applied to    *)
(* it, and then to its own result.                                         *)
(***************************************************************************)
\* The longest text drawn.
MaxLen == 4

Chars == {" ", "\t", "\n", "a"}
Texts == UNION {[1..n -> Chars] : n \in 0..MaxLen}

NormalizerInit ==
    /\ input = [exists |-> FALSE, readable |-> FALSE, columns |-> <<>>]
    /\ upstream = EmptyDict
    /\ Started
    /\ VotacionesIdle
    /\ text \in {None} \cup {Some(t) : t \in Texts}
    /\ cleaned = <<>>

\* clean_text(text), then clean_text of what it returned.
Normalize ==
    /\ Len(cleaned) < 2
    /\ cleaned' = Append(cleaned, clean_text(IF cleaned = <<>> THEN text
                                             ELSE Some(cleaned[Len(cleaned)])))
    /\ UNCHANGED <<input, upstream, vote_ids, idx, pc, Locals, results, output,
                   Tables, Frame, seed_state, events, fetch_calls, text, Votaciones>>

NormalizerSpec == NormalizerInit /\ [][Normalize]_vars

Trimmed(t) == t = <<>> \/ (~IsSpace(t[1]) /\ ~IsSpace(t[Len(t)]))
SingleSpaced(t) == \A i \in 1..(Len(t) - 1) : ~(t[i] = " " /\ t[i + 1] = " ")

\* C12: normalizing a normalized text returns it unchanged, for every input
\* (None and "" included), and a normalized text has no leading or trailing
\* whitespace and no two spaces in a row.
C12_Idempotent ==
    /\ Len(cleaned) >= 1 => Trimmed(cleaned[1]) /\ SingleSpaced(cleaned[1])
    /\ Len(cleaned) = 2 => cleaned[2] = cleaned[1]

\* A text with leading whitespace and a run of separators between two words,
\* normalized twice.
C12_Witness ==
    /\ Len(cleaned) = 2
    /\ text.some
    /\ Len(text.val) = 4
    /\ IsSpace(text.val[1])
    /\ \E i \in 2..3 : IsSpace(text.val[i]) /\ IsSpace(text.val[i + 1])
    /\ cleaned[1] = <<"a">>

(***************************************************************************)
(* C13  The delay schedule of one fetch_content call.                      *)
(***************************************************************************)
\* The sleeps and the requests of the call in progress or last returned.
Delays == SelectSeq(LastCall(events), LAMBDA e : e.kind \in {"sleep", "get"})

IsSleep(e, n) == e.kind = "sleep" /\ e.n = n

\* C13 as claimed: one courtesy sleep per call, before the first request; the
\* doubled delay after a failed request and before the next one; no other
\* sleep, and no doubled delay that no request follows.
C13_CourtesyOnceBackoffBetween ==
    pc \in ReturnPoints \cup {"fetch_content"} =>
        /\ \A k \in 1..Len(Delays) :
              /\ IsSleep(Delays[k], 1) => k = 1
              /\ IsSleep(Delays[k], 2) => k > 1 /\ Delays[k - 1].kind = "get"
              /\ Delays[k].kind = "get" =>
                    k > 1 /\ IsSleep(Delays[k - 1], IF k = 2 THEN 1 ELSE 2)
        /\ (pc \in ReturnPoints /\ Delays # <<>>) => Delays[Len(Delays)].kind = "get"

\* C13: every request of a call is directly preceded by the courtesy sleep,
\* every failed request is directly followed by the doubled delay (the last
\* one too), and the call sleeps at no other time.
C13_SleepAroundEveryRequest ==
    pc \in ReturnPoints \cup {"fetch_content"} =>
        /\ \A k \in 1..Len(Delays) :
              /\ Delays[k].kind = "get" => k > 1 /\ IsSleep(Delays[k - 1], 1)
              /\ IsSleep(Delays[k], 1) => k < Len(Delays) /\ Delays[k + 1].kind = "get"
              /\ IsSleep(Delays[k], 2) => k > 1 /\ Delays[k - 1].kind = "get"
              /\ Delays[k].kind = "sleep" => Delays[k].n \in {1, 2}
        /\ Len(SelectSeq(Delays, LAMBDA e : IsSleep(e, 1))) = CallCount("get")
        /\ Len(SelectSeq(Delays, LAMBDA e : IsSleep(e, 2))) = CallCount("warning")

\* A call whose requests all failed has returned: three courtesy sleeps and
\* three doubled delays, the last one after the last request.
C13_Witness ==
    /\ pc \in ReturnPoints
    /\ content.isNone
    /\ Len(Delays) = 3 * retries
    /\ IsSleep(Delays[Len(Delays)], 2)

(***************************************************************************)
(* C14  No retry after a success status, and an empty or absent body is    *)
(* no content to every stage.                                              *)
(***************************************************************************)
\* fetch_content returns a body in this step.
ReturnsBody == pc = "fetch_content" /\ pc' \in ReturnPoints /\ ~content'.isNone

\* A stage function resumes in this step with None or zero bytes.
ResumesWithNoContent == pc \in ReturnPoints /\ (content.isNone \/ content.doc.empty)

\* C14: the request that gets a success status is the last one of its call,
\* whatever the body; a stage that gets an empty or absent body returns its
\* empty result, logs no parse error and leaves the three tables as they are.
C14_NoRetryAfterSuccess ==
    [][ /\ ReturnsBody =>
              /\ events'[Len(events')].kind = "get"
              /\ Len(SelectSeq(LastCall(events'), LAMBDA e : e.kind = "get"))
                    = Len(SelectSeq(LastCall(events'), LAMBDA e : e.kind = "warning")) + 1
        /\ pc \in ReturnPoints => pc' # "fetch_content"
        /\ ResumesWithNoContent =>
              /\ UNCHANGED Tables
              /\ pc = "boletin_fetched" => boletin' = <<>>
              /\ pc = "proyecto_id_fetched" => project_id' = <<>>
              /\ pc = "urgencias_fetched" => urgency_list' = <<>>
              /\ Len(SelectSeq(events', LAMBDA e : e.kind = "error"))
                    = Len(SelectSeq(events, LAMBDA e : e.kind = "error")) ]_vars

\* fetch_urgencias has an empty body from the second request of its call,
\* after the first one failed.
C14_Witness ==
    /\ pc = "urgencias_fetched"
    /\ ~content.isNone
    /\ content.doc.empty
    /\ CallCount("get") = 2
    /\ CallCount("warning") = 1

(***************************************************************************)
(* C15  Urgency table extraction.                                          *)
(***************************************************************************)
HasMarker(t) == t.fecha_inicio \/ t.tipo_urgencia

\* The rows after the first of the first table in document order that holds
\* a marker phrase; none when no table holds one.
DataRows(doc) ==
    LET marked == {i \in 1..Len(doc.tables) : HasMarker(doc.tables[i])}
    IN  IF marked = {} THEN <<>>
        ELSE LET first == CHOOSE i \in marked : \A j \in marked : i <= j
                 rows == doc.tables[first].rows
             IN  SubSeq(rows, 2, Len(rows))

\* One record per data row of at least 5 cells, in row order, the fields by
\* cell position.
ExpectedRecords(doc) ==
    LET kept == SelectSeq(DataRows(doc), LAMBDA r : Len(r) >= 5)
    IN  [k \in 1..Len(kept) |->
            [urgencia_fecha_inicio |-> clean_text(Some(kept[k][1])),
             urgencia_fecha_termino |-> clean_text(Some(kept[k][2])),
             urgencia_tipo |-> clean_text(Some(kept[k][3])),
             urgencia_oficio |-> clean_text(Some(kept[k][4])),
             urgencia_mensaje_ing |-> clean_text(Some(kept[k][5])),
             urgencia_mensaje_ret |-> IF Len(kept[k]) >= 6 THEN clean_text(Some(kept[k][6]))
                                      ELSE <<>>]]

\* C15: from a fetched and parsed page fetch_urgencias returns one record per
\* row of at least 5 cells after the first row of the first table holding
\* 'Fecha Inicio' or 'Tipo de urgencia', in row order, fields by position,
\* the sixth from cell 5 when present and "" otherwise; shorter rows give no
\* record and do not end the extraction.
C15_TableExtraction ==
    [][ (/\ pc = "urgencias_fetched"
         /\ ~content.isNone
         /\ ~content.doc.empty
         /\ content.doc.parses) => urgency_list' = ExpectedRecords(content.doc) ]_vars

\* The page whose second table is the first marked one, with a header row, a
\* row of 6 cells, a row of 2 cells and a row of 5 cells: exactly 2 records,
\* the second with an empty sixth field.
C15_Witness ==
    /\ pc = "expand"
    /\ Len(urgency_list) = 2
    /\ urgency_list[1].urgencia_mensaje_ret = <<"f">>
    /\ urgency_list[2].urgencia_fecha_inicio = <<"g">>
    /\ urgency_list[2].urgencia_mensaje_ret = <<>>
    /\ CallCount("get") >= 1

(***************************************************************************)
(* C16  Caching of the urgency stage, against fixed upstream content.      *)
(***************************************************************************)
\* The listing page of a pair, as fetch_content returns it.
PageOf(pid, bol) == Bytes(upstream[UrgenciasUrl(pid, bol)])

\* The page of a pair is one fetch_urgencias can read.
Readable(pid, bol) == ~PageOf(pid, bol).doc.empty /\ PageOf(pid, bol).doc.parses

\* C16 as claimed: fetch_urgencias stores its list under the pair's key
\* exactly when the page was fetched and parsed, the empty list too; a later
\* call for a pair whose page was read does not fetch and returns the same
\* list; a call that could not read the page returns [] and stores nothing,
\* and a later call for the same pair fetches again; a seed with zero
\* records is DONE.
C16_UrgencyStageCaching ==
    [][ /\ pc = "urgencias_fetched" =>
              IF Readable(project_id, boletin)
              THEN /\ cache_key(project_id, boletin) \in DOMAIN project_urgencies'
                   /\ project_urgencies'[cache_key(project_id, boletin)] = urgency_list'
              ELSE /\ urgency_list' = <<>>
                   /\ UNCHANGED project_urgencies
        /\ (pc = "fetch_urgencias" /\ Calls(UrgenciasUrl(project_id, boletin)) >= 1) =>
              IF Readable(project_id, boletin)
              THEN /\ UNCHANGED fetch_calls
                   /\ urgency_list' = urgencias_result(PageOf(project_id, boletin))
              ELSE fetch_calls'[UrgenciasUrl(project_id, boletin)]
                      = fetch_calls[UrgenciasUrl(project_id, boletin)] + 1
        /\ (pc = "expand" /\ urgency_list = <<>>) => seed_state'[idx] = "DONE" ]_vars

(***************************************************************************)
(* C17  Separation of the composite key, against fixed upstream content.   *)
(***************************************************************************)
\* The (project_id, bulletin) pair fetch_urgencias was called with for a
\* seed that is DONE, read from the seed's first row.
PairOf(i) == <<RowsOf(i)[1].proyecto_id, RowsOf(i)[1].boletin>>

DoneSeeds == {i \in Seeds : seed_state[i] = "DONE"}

\* C17 as claimed: two distinct pairs never have the same key, and the list
\* fetch_urgencias returned for a pair is the list of that pair's own page.
C17_CompositeKeySeparation ==
    /\ \A i, j \in DoneSeeds :
          PairOf(i) # PairOf(j) =>
              cache_key(PairOf(i)[1], PairOf(i)[2]) # cache_key(PairOf(j)[1], PairOf(j)[2])
    /\ \A i \in DoneSeeds :
          RowsOf(i) = expand_rows(vote_ids[i], PairOf(i)[2], PairOf(i)[1],
                                  urgencias_result(PageOf(PairOf(i)[1], PairOf(i)[2])))

(***************************************************************************)
(* C18  Write-once memo tables.                                            *)
(***************************************************************************)
\* Every entry of table t is in t_, unchanged.
Keeps(t, t_) == \A k \in DOMAIN t : k \in DOMAIN t_ /\ t_[k] = t[k]

Range(t) == {t[k] : k \in DOMAIN t}

\* C18: no step removes or changes an entry of the three tables (row
\* expansion included); the first two tables hold no empty string; the keys
\* of the bulletin-keyed table are values stored as bulletins, and the keys
\* of the urgency table are built from a stored project id and its bulletin.
C18_WriteOnceTables ==
    /\ [][ /\ Keeps(vote_to_boletin, vote_to_boletin')
           /\ Keeps(boletin_to_project_id, boletin_to_project_id')
           /\ Keeps(project_urgencies, project_urgencies')
           /\ pc = "expand" => UNCHANGED Tables ]_vars
    /\ [](/\ <<>> \notin Range(vote_to_boletin)
          /\ <<>> \notin Range(boletin_to_project_id)
          /\ DOMAIN vote_to_boletin \subseteq {vote_ids[i] : i \in Seeds}
          /\ DOMAIN boletin_to_project_id \subseteq Range(vote_to_boletin)
          /\ DOMAIN project_urgencies \subseteq
                {boletin_to_project_id[b] \o <<"_">> \o b : b \in DOMAIN boletin_to_project_id})

\* Two seeds with different bulletins and projects are done: every table
\* holds two entries, the first seed's among them, and rows were expanded
\* from a stored list.
C18_Witness ==
    /\ pc = "for"
    /\ seed_state = <<"DONE", "DONE">>
    /\ Cardinality(DOMAIN vote_to_boletin) = 2
    /\ Cardinality(DOMAIN boletin_to_project_id) = 2
    /\ Cardinality(DOMAIN project_urgencies) = 2
    /\ \E k \in DOMAIN project_urgencies : Len(project_urgencies[k]) = 2

(***************************************************************************)
(* The vote-metadata program (src/src/fetch_votaciones.py): main, its two  *)
(* stage functions and the bulletin memo table.  A fetch_content call is   *)
(* one step here: some requests fail, then one succeeds or the retries are *)
(* exhausted.                                                              *)
(***************************************************************************)
\* An XML element with its attribute ID and its children.
Node(tag, txt, id, children) ==
    [tag |-> tag, text |-> txt, id |-> id, children |-> children]
Leaf(tag, txt) == Node(tag, Some(txt), None, <<>>)

\* The descendants of a list of sibling elements, in document order.
RECURSIVE Descendants(_)
Descendants(nodes) ==
    IF nodes = <<>> THEN <<>>
    ELSE <<Head(nodes)>> \o Descendants(Head(nodes).children) \o Descendants(Tail(nodes))

VoteDetailDoc(children) == XmlDoc(Descendants(children))

\* Bodies of retornarVotacionDetalle.aspx, as fetch_votacion_detalle reads
\* them.
VoteDetailDocs ==
    { EmptyBody,
      Unparseable,
      VoteDetailDoc(<<Leaf("Fecha", <<"d">>), Leaf("Resultado", <<" ", "s", "i">>)>>),
      VoteDetailDoc(<<Leaf("Fecha", <<"d">>), Leaf("Tipo", <<"t">>),
                      Leaf("Quorum", <<"q">>), Leaf("Boletin", <<" ", "3", "\n">>),
                      Node("Sesion", None, Some(<<"9">>),
                           <<Leaf("Numero", <<"7">>), Leaf("Fecha", <<"e">>)>>)>>),
      VoteDetailDoc(<<Node("Sesion", None, None, <<Leaf("Fecha", <<"e">>)>>),
                      Leaf("Fecha", <<"d">>), Leaf("Boletin", <<"2", "_", "3">>)>>) }

\* A table of votacion_boletin.aspx: whether a cell of its first row holds
\* "Fecha", and its rows (each the texts of its td cells).
VotingTable(fecha, rows) == [fecha |-> fecha, rows |-> rows]

VotingRow == <<<<"a">>, <<" ", "b">>, <<>>, <<"c">>>>

\* Bodies of votacion_boletin.aspx.
VotingListDocs ==
    { EmptyPage,
      Unparseable,
      HtmlTables(<<VotingTable(FALSE, <<HeaderRow, VotingRow>>)>>),
      HtmlTables(<<VotingTable(TRUE, <<>>),
                   VotingTable(TRUE, <<HeaderRow, ShortRow, VotingRow>>),
                   VotingTable(TRUE, <<HeaderRow, VotingRow>>)>>) }

VotacionBoletinUrl(bol) == Url("votacion_boletin", <<>>, bol)

\* utils.fetch_content, lines 23-31: the events of k failed requests.
RECURSIVE FailedRequests(_, _)
FailedRequests(u, k) ==
    IF k = 0 THEN <<>>
    ELSE FailedRequests(u, k - 1)
            \o <<Ev("sleep", "fetch_content", u, 1), Ev("get", "fetch_content", u, k),
                 Ev("warning", "fetch_content", u, k), Ev("sleep", "fetch_content", u, 2)>>

\* utils.fetch_content, lines 19-34: the ways one call can go, each with what
\* it returns and the events it leaves.
FetchRuns(u, docs) ==
    { [content |-> Bytes(d),
       log |-> <<Ev("fetch", "fetch_content", u, 0)>> \o FailedRequests(u, k)
                 \o <<Ev("sleep", "fetch_content", u, 1),
                      Ev("get", "fetch_content", u, k + 1)>>] :
          d \in docs, k \in {j \in 0..retries : in_range(j, retries)} }
    \cup { [content |-> NoContent,
            log |-> <<Ev("fetch", "fetch_content", u, 0)>> \o FailedRequests(u, retries)
                      \o <<Ev("error", "fetch_content", u, retries)>>] }

\* fetch_votacion_detalle, lines 34-39: get_text.
get_text(elems, tag) ==
    LET found == find(elems, tag)
    IN  IF found.some THEN clean_text(found.val.text) ELSE <<>>

\* fetch_votacion_detalle, lines 21-71: None without content or tree,
\* otherwise the data read from the record.
votacion_detalle(vid, c) ==
    IF not_content(c) THEN None
    ELSE IF ~c.doc.parses THEN None
    ELSE LET root == c.doc.elems
             sesion == find(root, "Sesion")
         IN  Some([vote_id |-> vid,
                   fecha |-> get_text(root, "Fecha"),
                   tipo |-> get_text(root, "Tipo"),
                   resultado |-> get_text(root, "Resultado"),
                   quorum |-> get_text(root, "Quorum"),
                   boletin |-> get_text(root, "Boletin"),
                   sesion_id |-> IF sesion.some /\ sesion.val.id.some
                                 THEN sesion.val.id.val ELSE <<>>,
                   sesion_numero |-> IF sesion.some
                                     THEN get_text(Descendants(sesion.val.children), "Numero")
                                     ELSE <<>>,
                   sesion_fecha |-> IF sesion.some
                                    THEN get_text(Descendants(sesion.val.children), "Fecha")
                                    ELSE <<>>,
                   sesion_tipo |-> IF sesion.some
                                   THEN get_text(Descendants(sesion.val.children), "Tipo")
                                   ELSE <<>>])

\* fetch_votaciones_boletin, lines 141-144: " | ".join of the cleaned cells.
raw_data(cols) == join(<<" ", "|", " ">>, [i \in 1..Len(cols) |-> clean_text(Some(cols[i]))])

\* Lines 115-145: one entry per row of at least 4 cells after the first row.
RECURSIVE rows_to_votaciones(_, _)
rows_to_votaciones(bol, rows) ==
    IF rows = <<>> THEN <<>>
    ELSE IF Len(Head(rows)) < 4 THEN rows_to_votaciones(bol, Tail(rows))
    ELSE <<[boletin_context |-> bol, raw_data |-> raw_data(Head(rows))]>>
            \o rows_to_votaciones(bol, Tail(rows))

\* Lines 102-145: the entries of every table that has rows and "Fecha" in a
\* cell of its first row.
RECURSIVE parse_votaciones(_, _)
parse_votaciones(bol, tables) ==
    IF tables = <<>> THEN <<>>
    ELSE IF Head(tables).rows = <<>> \/ ~Head(tables).fecha
         THEN parse_votaciones(bol, Tail(tables))
         ELSE rows_to_votaciones(bol, Tail(Head(tables).rows))
                 \o parse_votaciones(bol, Tail(tables))

\* Lines 84-148: what fetch_votaciones_boletin returns after the fetch.
votaciones_result(bol, c) ==
    IF page_parsed(c) THEN parse_votaciones(bol, c.doc.tables) ELSE <<>>

\* Line 147: the list is stored whenever the page was fetched and parsed.
store_votaciones(cache, bol, c) ==
    IF page_parsed(c) THEN DictPut(cache, bol, parse_votaciones(bol, c.doc.tables))
    ELSE cache

\* main, lines 211-222: the row of a vote, built from its details.
meta_row(vid, det, descripcion_articulo, contexto_tramite) ==
    [vote_id |-> vid,
     boletin |-> det.boletin,
     fecha |-> det.fecha,
     tipo_votacion |-> det.tipo,
     resultado |-> det.resultado,
     quorum |-> det.quorum,
     sesion_id |-> det.sesion_id,
     sesion_numero |-> det.sesion_numero,
     descripcion_articulo |-> descripcion_articulo,
     contexto_tramite |-> contexto_tramite]

\* What the vote-metadata program never touches.
UrgenciasOnly ==
    <<upstream, Normalizer, project_id, urgency_list, Tables, Frame, seed_state>>

(***************************************************************************)
(* fetch_votaciones.main, lines 150-171: logging, the input file, the seed *)
(* list.                                                                   *)
(***************************************************************************)
VotacionesMain ==
    /\ pc = "main"
    /\ IF ~input.exists
       THEN /\ events' = <<Ev("info", "main", NoUrl, 0), Ev("error", "main", NoUrl, 0)>>
            /\ pc' = "exit"
            /\ UNCHANGED vote_ids
       ELSE IF ~input.readable
       THEN /\ events' = <<Ev("info", "main", NoUrl, 0), Ev("error", "main", NoUrl, 1)>>
            /\ pc' = "exit"
            /\ UNCHANGED vote_ids
       ELSE /\ vote_ids' = numeric_columns(input.columns)
            /\ events' = <<Ev("info", "main", NoUrl, 0),
                           Ev("info", "main", NoUrl, Len(numeric_columns(input.columns)))>>
            /\ pc' = "votes_for"
    /\ UNCHANGED <<input, UrgenciasOnly, Votaciones, idx, boletin, results, output,
                   fetch_calls>>

(***************************************************************************)
(* main, line 173: the next seed, or the end of the loop.                  *)
(***************************************************************************)
VotacionesForNext ==
    /\ pc = "votes_for"
    /\ IF idx < Len(vote_ids)
       THEN /\ idx' = idx + 1
            /\ pc' = "fetch_votacion_detalle"
       ELSE /\ pc' = "votes_save"
            /\ UNCHANGED idx
    /\ events' = <<>>
    /\ UNCHANGED <<input, UrgenciasOnly, Votaciones, vote_ids, boletin, results, output,
                   fetch_calls>>

(***************************************************************************)
(* main, line 175, and fetch_votacion_detalle, lines 19-71.                *)
(***************************************************************************)
FetchVotacionDetalle ==
    /\ pc = "fetch_votacion_detalle"
    /\ \E run \in FetchRuns(DetalleUrl(vote_id), VoteDetailDocs) :
          /\ details' = votacion_detalle(vote_id, run.content)
          /\ events' = events \o run.log
    /\ fetch_calls' = DictPut(fetch_calls, DetalleUrl(vote_id), Calls(DetalleUrl(vote_id)) + 1)
    /\ pc' = "check_details"
    /\ UNCHANGED <<input, UrgenciasOnly, vote_ids, idx, boletin, results, output,
                   bulletin_votings, boletin_cache>>

(***************************************************************************)
(* main, lines 176-202: no details, a warning and the next seed;           *)
(* otherwise the bulletin of the details.                                  *)
(***************************************************************************)
CheckDetails ==
    /\ pc = "check_details"
    /\ IF ~details.some
       THEN /\ events' = Append(events, Ev("warning", "main", DetalleUrl(vote_id), 0))
            /\ pc' = "votes_for"
            /\ UNCHANGED boletin
       ELSE /\ boletin' = details.val.boletin
            /\ pc' = IF is_empty(details.val.boletin) THEN "append_row"
                     ELSE "fetch_votaciones_boletin"
            /\ UNCHANGED events
    /\ UNCHANGED <<input, UrgenciasOnly, Votaciones, vote_ids, idx, results, output,
                   fetch_calls>>

(***************************************************************************)
(* main, line 203, and fetch_votaciones_boletin, lines 77-148.             *)
(***************************************************************************)
FetchVotacionesBoletin ==
    /\ pc = "fetch_votaciones_boletin"
    /\ IF is_empty(boletin)
       THEN /\ bulletin_votings' = <<>>
            /\ UNCHANGED <<boletin_cache, events, fetch_calls>>
       ELSE IF in_cache(boletin_cache, boletin)
       THEN /\ bulletin_votings' = boletin_cache[boletin]
            /\ events' = Append(events, Ev("lookup", "boletin_cache",
                                           VotacionBoletinUrl(boletin), 1))
            /\ UNCHANGED <<boletin_cache, fetch_calls>>
       ELSE \E run \in FetchRuns(VotacionBoletinUrl(boletin), VotingListDocs) :
               /\ bulletin_votings' = votaciones_result(boletin, run.content)
               /\ boletin_cache' = store_votaciones(boletin_cache, boletin, run.content)
               /\ events' = events
                     \o <<Ev("lookup", "boletin_cache", VotacionBoletinUrl(boletin), 0)>>
                     \o run.log
               /\ fetch_calls' = DictPut(fetch_calls, VotacionBoletinUrl(boletin),
                                         Calls(VotacionBoletinUrl(boletin)) + 1)
    /\ pc' = "append_row"
    /\ UNCHANGED <<input, UrgenciasOnly, vote_ids, idx, boletin, results, output, details>>

(***************************************************************************)
(* A driver that keeps the row of a vote only when its bulletin's voting   *)
(* list has an entry to match it with.                                     *)
(***************************************************************************)
AppendRow_matched ==
    /\ pc = "append_row"
    /\ results' = IF is_empty(boletin) \/ bulletin_votings # <<>>
                  THEN Append(results, meta_row(vote_id, details.val, <<>>, <<>>))
                  ELSE results
    /\ pc' = "votes_for"
    /\ UNCHANGED <<input, UrgenciasOnly, Votaciones, vote_ids, idx, boletin, output, events,
                   fetch_calls>>

(***************************************************************************)
(* main, lines 198-223: the row of the vote is appended.                   *)
(***************************************************************************)
AppendRow ==
    /\ pc = "append_row"
    /\ results' = Append(results, meta_row(vote_id, details.val, <<>>, <<>>))
    /\ pc' = "votes_for"
    /\ UNCHANGED <<input, UrgenciasOnly, Votaciones, vote_ids, idx, boletin, output, events,
                   fetch_calls>>

(***************************************************************************)
(* main, lines 225-231: the rows are written, or a warning is logged.      *)
(***************************************************************************)
VotacionesSave ==
    /\ pc = "votes_save"
    /\ IF results # <<>>
       THEN /\ output' = [written |-> TRUE, rows |-> results]
            /\ events' = Append(events, Ev("info", "main", NoUrl, Len(results)))
       ELSE /\ events' = Append(events, Ev("warning", "main", NoUrl, 0))
            /\ UNCHANGED output
    /\ pc' = "exit"
    /\ UNCHANGED <<input, UrgenciasOnly, Votaciones, vote_ids, idx, boletin, results,
                   fetch_calls>>

VotacionesNext ==
    \/ VotacionesMain
    \/ VotacionesForNext
    \/ FetchVotacionDetalle
    \/ CheckDetails
    \/ FetchVotacionesBoletin
    \/ AppendRow
    \/ VotacionesSave

VotacionesSpec == Init /\ [][VotacionesNext]_vars

(***************************************************************************)
(* C19  The bulletin's voting list has no effect on the rows of the        *)
(* vote-metadata program.                                                  *)
(***************************************************************************)
\* The row of a vote as its details alone give it.
RowFromDetail(det) ==
    [vote_id |-> det.vote_id, boletin |-> det.boletin, fecha |-> det.fecha,
     tipo_votacion |-> det.tipo, resultado |-> det.resultado, quorum |-> det.quorum,
     sesion_id |-> det.sesion_id, sesion_numero |-> det.sesion_numero,
     descripcion_articulo |-> <<>>, contexto_tramite |-> <<>>]

=============================================================================
